---- MODULE Spec2Model ----
(***************************************************************************)
(* Model of mongo-exporter/src/index.js: the numeric normalizer toNumber,  *)
(* the delta-counter reconciliation updateCounters over the snapshot       *)
(* store, the gauge setters, the topology collector collectReplicaMetrics, *)
(* the poll cycle collectOnce, the start-up sequence with its interval     *)
(* timer, and the /metrics and /healthz handlers.  Each await of the       *)
(* source is a separate action; the synchronous code between two awaits is *)
(* one atomic action.                                                      *)
(***************************************************************************)
EXTENDS Integers, Sequences, FiniteSets

\* ------------------------------------------------------------------ bounds
\* largest raw number the provider reports
MaxVal == 2
\* number of poll cycles started in one run (the first one included)
MaxCycles == 3
\* the same, and the largest provider value, for the growing provider
GrowCycles == 4
MaxProvider == 3
\* the number of log lines the nginx log exporter is given
MaxLines == 3

\* ------------------------------------------------------- JavaScript values
\* A JavaScript value is a record tagged by t.  typeof is derived from it.
Undefined == [t |-> "undefined"]
Null == [t |-> "null"]
NaN == [t |-> "NaN"]
Infinity == [t |-> "Infinity"]
Num(n) == [t |-> "number", v |-> n]
BigInt(n) == [t |-> "bigint", v |-> n]
Str(s) == [t |-> "string", s |-> s]
Bool(b) == [t |-> "boolean", b |-> b]
\* BSON wrappers: Long has a toNumber method; the others carry _bsontype
Long(n) == [t |-> "Long", v |-> n]
Decimal128(s) == [t |-> "Decimal128", s |-> s]
Double(x) == [t |-> "Double", value |-> x]
Int32(x) == [t |-> "Int32", value |-> x]
\* a plain object: f maps its own property names to values
Obj(f) == [t |-> "object", f |-> f]
Arr(items) == [t |-> "array", items |-> items]
Date(ms) == [t |-> "Date", ms |-> ms]
EmptyMap == [x \in {} |-> Undefined]

TypeOf(x) ==
  CASE x.t \in {"number", "NaN", "Infinity"} -> "number"
    [] x.t = "undefined" -> "undefined"
    [] x.t = "bigint" -> "bigint"
    [] x.t = "string" -> "string"
    [] x.t = "boolean" -> "boolean"
    [] OTHER -> "object"

\* Number.isFinite
isFinite(x) == x.t = "number"

\* decimal strings the model knows, "0" first
NumStrings == <<"0", "1", "2", "3", "4">>

\* Number(string): the empty string is 0, a decimal string its value, NaN else
StringToNumber(s) ==
  IF s = "" THEN Num(0)
  ELSE IF \E i \in DOMAIN NumStrings : NumStrings[i] = s
       THEN Num((CHOOSE i \in DOMAIN NumStrings : NumStrings[i] = s) - 1)
       ELSE NaN

\* String(x) for the primitives the model converts
StringOf(x) ==
  CASE x.t = "number" /\ x.v \in 0..(Len(NumStrings) - 1) -> NumStrings[x.v + 1]
    [] x.t = "string" -> x.s
    [] x.t = "undefined" -> "undefined"
    [] x.t = "null" -> "null"
    [] OTHER -> "NaN"

\* Number(x), the ToNumber coercion of the language
Number(x) ==
  CASE x.t \in {"number", "NaN", "Infinity"} -> x
    [] x.t = "undefined" -> NaN
    [] x.t = "null" -> Num(0)
    [] x.t = "boolean" -> IF x.b THEN Num(1) ELSE Num(0)
    [] x.t = "bigint" -> Num(x.v)
    [] x.t = "string" -> StringToNumber(x.s)
    [] x.t = "Date" -> Num(x.ms)
    [] x.t = "array" ->
         IF Len(x.items) = 0 THEN Num(0)
         ELSE IF Len(x.items) = 1 THEN StringToNumber(StringOf(x.items[1]))
         ELSE NaN
    [] OTHER -> NaN

\* the normalizer
toNumber(value) ==
  IF value.t \in {"undefined", "null"} THEN Undefined
  ELSE IF TypeOf(value) = "number" THEN value
  ELSE IF TypeOf(value) = "bigint" THEN Number(value)
  ELSE IF value.t = "Long" THEN Num(value.v)
  ELSE IF value.t = "Decimal128" THEN Number(Str(value.s))
  ELSE IF value.t \in {"Double", "Int32"} THEN Number(value.value)
  ELSE LET parsed == Number(value)
       IN  IF parsed = NaN THEN Undefined ELSE parsed

\* ------------------------------------------------------------ object access
\* obj.k on an object; undefined when the property is absent
Get(obj, k) == IF obj.t = "object" /\ k \in DOMAIN obj.f THEN obj.f[k] ELSE Undefined
\* obj?.k
OptGet(obj, k) == IF obj.t \in {"undefined", "null"} THEN Undefined ELSE Get(obj, k)
Nullish(x) == x.t \in {"undefined", "null"}

\* m with key k set to v (a labelled series, or a store entry)
Put(m, k, v) == [x \in (DOMAIN m) \cup {k} |-> IF x = k THEN v ELSE m[x]]

\* --------------------------------------------------------- metric registry
\* prom-client Counter.inc(labels, value) and Gauge.set(labels, value) on a
\* labelled metric, held as a map from the label value to the series value
inc(counter, key, delta) ==
  Put(counter, key, (IF key \in DOMAIN counter THEN counter[key] ELSE 0) + delta)
\* a variant of set that adds the value to the series, as Gauge.inc does
setAccumulates(gauge, key, value) ==
  Put(gauge, key, (IF key \in DOMAIN gauge THEN gauge[key] ELSE 0) + value)
set(gauge, key, value) == Put(gauge, key, value)

\* variants of reconcileEntry, each with one defect
\* the delta is added without comparing the new value with the previous one
reconcileEntryNegativeDelta(acc, key, raw) ==
  LET currentValue == toNumber(raw)
  IN  IF ~isFinite(currentValue) THEN acc
      ELSE [store |-> Put(acc.store, key, currentValue.v),
            counter |-> IF key \in DOMAIN acc.store
                        THEN inc(acc.counter, key, currentValue.v - acc.store[key])
                        ELSE acc.counter]
\* a lower value is not stored as the new baseline
reconcileEntryKeepBaseline(acc, key, raw) ==
  LET currentValue == toNumber(raw)
  IN  IF ~isFinite(currentValue) THEN acc
      ELSE IF key \in DOMAIN acc.store /\ currentValue.v < acc.store[key] THEN acc
      ELSE [store |-> Put(acc.store, key, currentValue.v),
            counter |-> IF key \in DOMAIN acc.store
                        THEN inc(acc.counter, key, currentValue.v - acc.store[key])
                        ELSE acc.counter]
\* a key without a stored value is differenced against 0
reconcileEntryZeroPrevious(acc, key, raw) ==
  LET currentValue == toNumber(raw)
      previous == IF key \in DOMAIN acc.store THEN acc.store[key] ELSE 0
  IN  IF ~isFinite(currentValue) THEN acc
      ELSE [store |-> Put(acc.store, key, currentValue.v),
            counter |-> IF currentValue.v >= previous
                        THEN inc(acc.counter, key, currentValue.v - previous)
                        ELSE acc.counter]
\* the new value is added instead of its difference to the previous one
reconcileEntryAddsValue(acc, key, raw) ==
  LET currentValue == toNumber(raw)
  IN  IF ~isFinite(currentValue) THEN acc
      ELSE [store |-> Put(acc.store, key, currentValue.v),
            counter |-> IF key \in DOMAIN acc.store /\ currentValue.v >= acc.store[key]
                        THEN inc(acc.counter, key, currentValue.v)
                        ELSE acc.counter]
\* a value that cannot be normalized is reconciled as 0
reconcileEntryZeroForUnavailable(acc, key, raw) ==
  LET currentValue == IF isFinite(toNumber(raw)) THEN toNumber(raw) ELSE Num(0)
  IN  [store |-> Put(acc.store, key, currentValue.v),
       counter |-> IF key \in DOMAIN acc.store /\ currentValue.v >= acc.store[key]
                   THEN inc(acc.counter, key, currentValue.v - acc.store[key])
                   ELSE acc.counter]

\* the difference is stored instead of the new value
reconcileEntryStoresDelta(acc, key, raw) ==
  LET currentValue == toNumber(raw)
  IN  IF ~isFinite(currentValue) THEN acc
      ELSE IF key \in DOMAIN acc.store /\ currentValue.v >= acc.store[key]
      THEN [store |-> Put(acc.store, key, currentValue.v - acc.store[key]),
            counter |-> inc(acc.counter, key, currentValue.v - acc.store[key])]
      ELSE [store |-> Put(acc.store, key, currentValue.v), counter |-> acc.counter]

\* the series is set to the last difference instead of being incremented by it
reconcileEntryLastIncrement(acc, key, raw) ==
  LET currentValue == toNumber(raw)
  IN  IF ~isFinite(currentValue) THEN acc
      ELSE [store |-> Put(acc.store, key, currentValue.v),
            counter |-> IF key \in DOMAIN acc.store /\ currentValue.v >= acc.store[key]
                        THEN Put(acc.counter, key, currentValue.v - acc.store[key])
                        ELSE acc.counter]

\* a value of 0 is taken for a missing one and skipped
reconcileEntrySkipsZero(acc, key, raw) ==
  LET currentValue == toNumber(raw)
      previous == IF key \in DOMAIN acc.store THEN Num(acc.store[key]) ELSE Undefined
  IN  IF ~isFinite(currentValue) \/ currentValue.v = 0 THEN acc
      ELSE [store |-> Put(acc.store, key, currentValue.v),
            counter |-> IF isFinite(previous) /\ currentValue.v >= previous.v
                        THEN inc(acc.counter, key, currentValue.v - previous.v)
                        ELSE acc.counter]

\* the body of the forEach callback of updateCounters for one [key, raw] entry
\* acc = [store, counter]
reconcileEntry(acc, key, raw) ==
  LET currentValue == toNumber(raw)
      previous == IF key \in DOMAIN acc.store THEN Num(acc.store[key]) ELSE Undefined
  IN  IF ~isFinite(currentValue) THEN acc
      ELSE [store |-> Put(acc.store, key, currentValue.v),
            counter |-> IF isFinite(previous) /\ currentValue.v >= previous.v
                        THEN inc(acc.counter, key, currentValue.v - previous.v)
                        ELSE acc.counter]

RECURSIVE forEachEntry(_, _, _)
forEachEntry(keys, entries, acc) ==
  IF keys = {} THEN acc
  ELSE LET key == CHOOSE k \in keys : TRUE
       IN  forEachEntry(keys \ {key}, entries, reconcileEntry(acc, key, entries[key]))

\* a variant of updateCounters that rebuilds the store from the response, so
\* that a key missing from it loses its entry
updateCountersDropsAbsent(current, store, counter) ==
  LET cur == IF current.t = "undefined" THEN Obj(EmptyMap) ELSE current
      acc == [store |-> store, counter |-> counter]
  IN  IF cur.t = "null" THEN [threw |-> TRUE, store |-> store, counter |-> counter]
      ELSE IF cur.t # "object" THEN [threw |-> FALSE, store |-> store, counter |-> counter]
      ELSE LET r == forEachEntry(DOMAIN cur.f, cur.f, acc)
           IN  [threw |-> FALSE,
                store |-> [k \in DOMAIN r.store \cap DOMAIN cur.f |-> r.store[k]],
                counter |-> r.counter]

\* updateCounters(current = {}, store, counter, label): the result carries
\* threw = TRUE when Object.entries raises a TypeError (current is null)
updateCounters(current, store, counter) ==
  LET cur == IF current.t = "undefined" THEN Obj(EmptyMap) ELSE current
      acc == [store |-> store, counter |-> counter]
  IN  IF cur.t = "null" THEN [threw |-> TRUE, store |-> store, counter |-> counter]
      ELSE IF cur.t # "object" THEN [threw |-> FALSE, store |-> store, counter |-> counter]
      ELSE LET r == forEachEntry(DOMAIN cur.f, cur.f, acc)
           IN  [threw |-> FALSE, store |-> r.store, counter |-> r.counter]

MiB == 1024 * 1024

\* setMemoryMetrics(mem = {}): reading a property of null raises
setMemoryMetrics(mem, gauge) ==
  LET m == IF mem.t = "undefined" THEN Obj(EmptyMap) ELSE mem
      resident == toNumber(Get(m, "resident"))
      virtual == toNumber(Get(m, "virtual"))
      g1 == IF isFinite(resident) THEN set(gauge, "resident", resident.v * MiB) ELSE gauge
      g2 == IF isFinite(virtual) THEN set(g1, "virtual", virtual.v * MiB) ELSE g1
  IN  IF m.t = "null" THEN [threw |-> TRUE, gauge |-> gauge]
      ELSE [threw |-> FALSE, gauge |-> g2]

\* setConnections(connections = {})
setConnections(connections, gauge) ==
  LET c == IF connections.t = "undefined" THEN Obj(EmptyMap) ELSE connections
      current == toNumber(Get(c, "current"))
      available == toNumber(Get(c, "available"))
      g1 == IF isFinite(current) THEN set(gauge, "current", current.v) ELSE gauge
      g2 == IF isFinite(available) THEN set(g1, "available", available.v) ELSE g1
  IN  IF c.t = "null" THEN [threw |-> TRUE, gauge |-> gauge]
      ELSE [threw |-> FALSE, gauge |-> g2]

\* the keys of the snapshots object, in the order collectOnce reconciles them
Families == <<"opcounters", "opcountersRepl", "metricsDocument", "metricsQuery",
              "metricsOperation", "locks", "network">>
FamilySet == {Families[i] : i \in DOMAIN Families}

\* the first argument of the updateCounters call for family fam
familyArg(status, fam) ==
  CASE fam = "opcounters" -> Get(status, "opcounters")
    [] fam = "opcountersRepl" -> Get(status, "opcountersRepl")
    [] fam = "metricsDocument" -> OptGet(Get(status, "metrics"), "document")
    [] fam = "metricsQuery" -> OptGet(Get(status, "metrics"), "queryExecutor")
    [] fam = "metricsOperation" -> OptGet(Get(status, "metrics"), "operation")
    [] fam = "locks" ->
         OptGet(OptGet(Get(status, "locks"), "Global"), "timeAcquiringMicros")
    [] fam = "network" ->
         Obj([k \in {"bytesIn", "bytesOut"} |-> OptGet(Get(status, "network"), k)])

\* the registry and store state a poll cycle writes, as one record
\* reg = [mongoUp, mongoUptime, mongoMemory, mongoConnections, counters, snapshots]
RECURSIVE reconcileFamilies(_, _, _)
reconcileFamilies(i, status, reg) ==
  IF i > Len(Families) THEN [threw |-> FALSE, reg |-> reg]
  ELSE LET fam == Families[i]
           r == updateCounters(familyArg(status, fam), reg.snapshots[fam], reg.counters[fam])
           next == [reg EXCEPT !.snapshots[fam] = r.store, !.counters[fam] = r.counter]
       IN  IF r.threw THEN [threw |-> TRUE, reg |-> reg]
           ELSE reconcileFamilies(i + 1, status, next)

\* collectOnce from the resolution of serverStatus up to the await of
\* collectReplicaMetrics; threw = TRUE when the try block raised, in which case
\* the catch block has run
onServerStatus(status, reg) ==
  LET r0 == [reg EXCEPT !.mongoUp = 1]
      uptime == toNumber(Get(status, "uptime"))
      r1 == IF isFinite(uptime) THEN [r0 EXCEPT !.mongoUptime = uptime.v] ELSE r0
      mem == setMemoryMetrics(Get(status, "mem"), r1.mongoMemory)
      r2 == [r1 EXCEPT !.mongoMemory = mem.gauge]
      con == setConnections(Get(status, "connections"), r2.mongoConnections)
      r3 == [r2 EXCEPT !.mongoConnections = con.gauge]
      fams == reconcileFamilies(1, status, r3)
  IN  IF mem.threw THEN [threw |-> TRUE, reg |-> [r1 EXCEPT !.mongoUp = 0]]
      ELSE IF con.threw THEN [threw |-> TRUE, reg |-> [r2 EXCEPT !.mongoUp = 0]]
      ELSE IF fams.threw THEN [threw |-> TRUE, reg |-> [fams.reg EXCEPT !.mongoUp = 0]]
      ELSE [threw |-> FALSE, reg |-> fams.reg]

\* a variant of onServerStatusError that also drops the stored baselines
onServerStatusErrorClearsStore(reg) ==
  [reg EXCEPT !.mongoUp = 0, !.snapshots = [f \in DOMAIN reg.snapshots |-> EmptyMap]]

\* the catch block of collectOnce when serverStatus rejects
onServerStatusError(reg) == [reg EXCEPT !.mongoUp = 0]

\* ------------------------------------------------------ topology collector
\* truthiness of a value (the || and if tests of the source)
Truthy(x) ==
  CASE x.t \in {"undefined", "null", "NaN"} -> FALSE
    [] x.t = "number" -> x.v # 0
    [] x.t = "string" -> x.s # ""
    [] x.t = "boolean" -> x.b
    [] OTHER -> TRUE

\* a variant of standaloneFallback that leaves the member count as it was
standaloneFallbackKeepsCount(repl) ==
  [repl EXCEPT !.replHealth = set(@, "standalone", 1),
               !.replState = set(@, <<"standalone", "standalone">>, 1),
               !.replOplogHead = 0,
               !.replOplogSize = set(@, "allocated", 0)]

\* a variant of standaloneFallback that leaves the oplog gauges as they were
standaloneFallbackKeepsOplog(repl) ==
  [repl EXCEPT !.replMembers = 1,
               !.replHealth = set(@, "standalone", 1),
               !.replState = set(@, <<"standalone", "standalone">>, 1)]

\* the catch block of collectReplicaMetrics
\* repl = [replMembers, replHealth, replState, replOplogSize, replOplogHead]
standaloneFallback(repl) ==
  [repl EXCEPT !.replMembers = 1,
               !.replHealth = set(@, "standalone", 1),
               !.replState = set(@, <<"standalone", "standalone">>, 1),
               !.replOplogHead = 0,
               !.replOplogSize = set(@, "allocated", 0)]

\* the forEach callback over one member; reading a property of a null or
\* undefined member raises
memberEntry(member, repl) ==
  LET name == IF Truthy(Get(member, "name")) THEN Get(member, "name").s ELSE "member"
      stateStr == IF Truthy(Get(member, "stateStr")) THEN Get(member, "stateStr").s
                  ELSE StringOf(Get(member, "state"))
      health == toNumber(Get(member, "health"))
      state == toNumber(Get(member, "state"))
      r1 == IF isFinite(health)
            THEN [repl EXCEPT !.replHealth = set(@, name, health.v)] ELSE repl
      r2 == IF isFinite(state)
            THEN [r1 EXCEPT !.replState = set(@, <<stateStr, name>>, state.v)] ELSE r1
  IN  IF Nullish(member) THEN [threw |-> TRUE, repl |-> repl]
      ELSE [threw |-> FALSE, repl |-> r2]

RECURSIVE forEachMember(_, _, _)
forEachMember(i, members, repl) ==
  IF i > Len(members) THEN [threw |-> FALSE, repl |-> repl]
  ELSE LET r == memberEntry(members[i], repl)
       IN  IF r.threw THEN r ELSE forEachMember(i + 1, members, r.repl)

\* a variant of findPrimary that takes the first member whatever its label
findPrimaryFirstMember(members) ==
  IF Len(members) > 0 THEN members[1] ELSE Undefined

\* members.find((m) => m.stateStr === 'PRIMARY') || members[0]
findPrimary(members) ==
  LET hits == {i \in DOMAIN members : Get(members[i], "stateStr") = Str("PRIMARY")}
  IN  IF hits # {} THEN members[CHOOSE i \in hits : \A j \in hits : i <= j]
      ELSE IF Len(members) > 0 THEN members[1]
      ELSE Undefined

\* the try block of collectReplicaMetrics after replSetGetStatus resolved,
\* followed by the catch block when it raised
onReplStatus(status, repl) ==
  LET m == IF Nullish(Get(status, "members")) THEN Arr(<< >>) ELSE Get(status, "members")
      r0 == [repl EXCEPT !.replMembers = Len(m.items)]
      each == forEachMember(1, m.items, r0)
      primary == findPrimary(m.items)
      optime == OptGet(primary, "optimeDate")
      r1 == IF optime.t = "Date"
            THEN [each.repl EXCEPT !.replOplogHead = optime.ms \div 1000] ELSE each.repl
      sizeMB == OptGet(OptGet(status, "storageEngine"), "oplogSizeMB")
      oplogBytes == toNumber(sizeMB)
      r2 == IF Truthy(sizeMB) /\ isFinite(oplogBytes)
            THEN [r1 EXCEPT !.replOplogSize = set(@, "allocated", oplogBytes.v * MiB)]
            ELSE r1
  IN  IF Nullish(status) THEN standaloneFallback(repl)
      ELSE IF m.t # "array" THEN standaloneFallback(repl)
      ELSE IF each.threw THEN standaloneFallback(each.repl)
      ELSE r2

\* whether the try block raised after replSetGetStatus resolved with status
onReplStatusThrew(status) ==
  LET m == IF Nullish(Get(status, "members")) THEN Arr(<< >>) ELSE Get(status, "members")
  IN  Nullish(status) \/ m.t # "array"
        \/ \E i \in DOMAIN m.items : Nullish(m.items[i])

\* collectReplicaMetrics when replSetGetStatus rejects
onReplError(repl) == standaloneFallback(repl)

\* the query outcomes: resolved with a status, or rejected
Resolved(status) == [ok |-> TRUE, status |-> status]
Rejected == [ok |-> FALSE, status |-> Undefined]

\* a variant of collectReplicaMetrics without the try/catch around its body
collectReplicaMetricsNoCatch(outcome, repl) ==
  IF outcome.ok /\ ~onReplStatusThrew(outcome.status)
  THEN [threw |-> FALSE, repl |-> onReplStatus(outcome.status, repl)]
  ELSE [threw |-> TRUE, repl |-> repl]

\* collectReplicaMetrics from the outcome of replSetGetStatus to its return;
\* threw = TRUE when the returned promise rejects.  Everything that can raise
\* is inside the try block, and the catch block only sets constants
collectReplicaMetrics(outcome, repl) ==
  [threw |-> FALSE,
   repl |-> IF outcome.ok THEN onReplStatus(outcome.status, repl) ELSE onReplError(repl)]

\* ------------------------------------------------------ exposition endpoint
\* what registry.metrics() renders of the metrics this module registers: the
\* current value of every gauge and counter series, under its metric name
\* (the snapshot store is not a metric and is not rendered)
Exposition(reg, repl) ==
  [mongodb_up |-> reg.mongoUp,
   mongodb_instance_uptime_seconds |-> reg.mongoUptime,
   mongodb_connections |-> reg.mongoConnections,
   mongodb_memory |-> reg.mongoMemory,
   counters |-> reg.counters,
   mongodb_replset_number_of_members |-> repl.replMembers,
   mongodb_replset_member_health |-> repl.replHealth,
   mongodb_replset_member_state |-> repl.replState,
   mongodb_replset_oplog_size_bytes |-> repl.replOplogSize,
   mongodb_replset_oplog_head_timestamp |-> repl.replOplogHead]

\* the GET /metrics handler: 200 with the rendering, 500 when rendering raises
\* (rendering stored numbers does not raise)
metricsHandler(reg, repl) == [code |-> 200, body |-> Exposition(reg, repl)]

\* getUpValue().  mongoUp.get() returns the metric's data object in
\* prom-client up to 12 and a promise of it from 13 on (promised = TRUE); the
\* values property of a promise is undefined, so series is [] and the value 0
getUpValue(promised, up) ==
  LET series == IF promised THEN Arr(<< >>) ELSE Arr(<<Obj([k \in {"value"} |-> Num(up)])>>)
      first == IF Len(series.items) > 0 THEN series.items[1] ELSE Undefined
      value == IF Nullish(OptGet(first, "value")) THEN Num(0) ELSE OptGet(first, "value")
  IN  Number(value).v

\* the GET /healthz handler
healthzHandler(promised, up) ==
  LET value == getUpValue(promised, up)
  IN  [status |-> IF value >= 1 THEN "ok" ELSE "degraded", mongoUp |-> value]

\* ------------------------------------------------------------------- inputs
\* raw encodings of one counter value in a serverStatus response
RawSamples ==
  {Num(v) : v \in 0..MaxVal} \cup {Long(MaxVal), Undefined, NaN, Str("abc")}

\* the shapes of raw value the normalizer distinguishes: each recognized
\* numeric representation, finite or not, with and without the value 0, and
\* the values that are none
RawShapes ==
  {Num(0), Num(1), NaN, Infinity, BigInt(0), BigInt(1), Long(0), Long(1),
   Decimal128("0"), Decimal128("1"), Decimal128("abc"),
   Double(Num(0)), Double(Num(1)), Int32(Num(0)), Int32(Num(1)),
   Undefined, Null, Str(""), Str("0"), Str("1"), Str("abc"),
   Bool(FALSE), Bool(TRUE), Arr(<< >>), Obj(EmptyMap)}

\* a serverStatus response with opcounters.insert = a and, unless b is
\* undefined, opcountersRepl.insert = b
CounterResponse(a, b) ==
  Obj([k \in (IF b = Undefined THEN {"opcounters"} ELSE {"opcounters", "opcountersRepl"}) |->
         Obj([j \in {"insert"} |-> IF k = "opcounters" THEN a ELSE b])])
CounterResponses ==
  {CounterResponse(a, b) : a \in RawSamples, b \in {Undefined, Num(MaxVal)}}
\* responses carrying the gauges and one counter
GaugeResponses ==
  {Obj([k \in {"uptime", "mem", "connections", "opcounters"} |->
          CASE k = "uptime" -> u
            [] k = "mem" -> Obj([j \in {"resident", "virtual"} |-> u])
            [] k = "connections" -> Obj([j \in {"current", "available"} |-> u])
            [] k = "opcounters" -> Obj([j \in {"insert"} |-> v])]) :
     u \in {Num(1), Undefined}, v \in {Num(0), Num(1), Str("abc")}}
\* responses one part of which is null
NullPartResponses ==
  {Obj([k \in {"opcounters", p} |-> IF k = p THEN Null ELSE Obj([j \in {"insert"} |-> Num(1)])]) :
     p \in {"opcountersRepl", "mem"}}
  \cup {Obj([k \in {"opcounters"} |-> Null]), Obj([k \in {"metrics"} |-> Null])}
StatusResponses == GaugeResponses \cup NullPartResponses
\* responses carrying the instantaneous values only: each of them valid with
\* two different values or unavailable, and one response whose mem is null
GaugeSampleResponse(u, w) ==
  Obj([k \in {"uptime", "mem", "connections"} |->
         CASE k = "uptime" -> u
           [] k = "mem" -> Obj([j \in {"resident", "virtual"} |-> IF j = "resident" THEN u ELSE w])
           [] k = "connections" ->
                Obj([j \in {"current", "available"} |-> IF j = "current" THEN w ELSE u])])
GaugeSampleResponses ==
  {GaugeSampleResponse(u, w) : u \in {Num(1), Num(MaxVal), NaN}, w \in {Num(0), Num(MaxVal), Undefined}}
  \cup {Obj([k \in {"uptime", "mem"} |-> IF k = "uptime" THEN Num(MaxVal) ELSE Null])}

\* replSetGetStatus responses
Member(name, stateStr, state, health) ==
  Obj([k \in {"name", "stateStr", "state", "health"} |->
         CASE k = "name" -> Str(name) [] k = "stateStr" -> Str(stateStr)
           [] k = "state" -> Num(state) [] k = "health" -> Num(health)])
ReplResponses ==
  {Obj([k \in {"members"} |-> Arr(<<Member("a", "PRIMARY", 1, 1)>>)]),
   Obj([k \in {"members"} |-> Arr(<<Member("a", "SECONDARY", 2, 1), Member("b", "PRIMARY", 1, 1)>>)])}

\* replSetGetStatus responses of a replica set, well formed and malformed: a
\* primary with optimeDate and an oplog size, two members, a member list with a
\* null entry, a member list that is not an array, and no member list
TopologyResponses ==
  {Obj([k \in {"members", "storageEngine"} |->
          IF k = "members"
          THEN Arr(<<Obj(Put(Member("a", "PRIMARY", 1, 1).f, "optimeDate", Date(2000)))>>)
          ELSE Obj([j \in {"oplogSizeMB"} |-> Num(1)])]),
   Obj([k \in {"members"} |-> Arr(<<Member("a", "SECONDARY", 2, 1), Member("b", "PRIMARY", 1, 1)>>)]),
   Obj([k \in {"members"} |-> Arr(<<Member("a", "PRIMARY", 1, 1), Null>>)]),
   Obj([k \in {"members"} |-> Str("x")]),
   Obj(EmptyMap)}

\* replSetGetStatus responses that vary the place of the primary and its
\* optimeDate: the primary second, no primary, a primary whose optimeDate is
\* no Date, no member, and two members labelled PRIMARY
MemberAt(name, stateStr, state, optimeDate) ==
  Obj(Put(Member(name, stateStr, state, 1).f, "optimeDate", optimeDate))
PrimaryResponses ==
  {Obj([k \in {"members"} |-> Arr(items)]) :
     items \in {<<MemberAt("a", "SECONDARY", 2, Date(1000)), MemberAt("b", "PRIMARY", 1, Date(2000))>>,
                <<MemberAt("a", "SECONDARY", 2, Date(1000)), MemberAt("b", "SECONDARY", 2, Date(2000))>>,
                <<MemberAt("a", "PRIMARY", 1, Str("x")), MemberAt("b", "SECONDARY", 2, Date(3000))>>,
                << >>,
                <<MemberAt("a", "PRIMARY", 1, Date(3000)), MemberAt("b", "PRIMARY", 1, Date(1000))>>}}

\* replSetGetStatus responses that vary what is known of the oplog: a primary
\* with optimeDate and an oplog size, a primary without optimeDate and no
\* oplog size, and no member but an oplog size
OplogResponses ==
  {Obj([k \in {"members", "storageEngine"} |->
          IF k = "members" THEN Arr(<<MemberAt("a", "PRIMARY", 1, Date(2000))>>)
          ELSE Obj([j \in {"oplogSizeMB"} |-> Num(1)])]),
   Obj([k \in {"members"} |-> Arr(<<Member("a", "PRIMARY", 1, 1)>>)]),
   Obj([k \in {"members", "storageEngine"} |->
          IF k = "members" THEN Arr(<< >>)
          ELSE Obj([j \in {"oplogSizeMB"} |-> Num(2)])])}

\* -------------------------------------------------------------------- state
VARIABLES
  proc,              \* "connecting", "running" or "exited": the process
  exitCode,          \* << >>, or <<c>> once process.exit(c) has been called
  intervalHandle,    \* TRUE once setInterval has armed the timer
  listening,         \* TRUE once app.listen has been called
  started,           \* number of collectOnce calls made so far
  awaitingStatus,    \* number of collectOnce calls awaiting serverStatus
  awaitingRepl,      \* number of collectOnce calls awaiting replSetGetStatus
  mongoUp, mongoUptime, mongoMemory, mongoConnections,
  counters,          \* per family, the labelled series of its Counter
  snapshots,         \* per family, the last stored value of each key
  replMembers, replHealth, replState, replOplogSize, replOplogHead,
  provider,          \* environment: the provider's own opcounters.insert
  answered,          \* environment: values the provider has sent, not yet received
  firstBase,         \* history: the first value of opcounters.insert received
  observed,          \* history: per family and key, the observations so far
  lastTopo,          \* history: "none", or how the last topology query ended
  lastPrimary,       \* history: "none", or how the last serverStatus request ended
  last,              \* history: the handler that ran last and its input
  pre,               \* history: the state before that handler ran
  logged,            \* the messages the last handler gave to the logger
  respBytesCounter,  \* nginx log exporter: per response code, the series of the Counter
  lineCount,         \* nginx log exporter: number of lines handled so far
  lastLine,          \* history: the line handled last, as it was written
  preBytes           \* history: respBytesCounter before that line

regVars == <<mongoUp, mongoUptime, mongoMemory, mongoConnections, counters, snapshots>>
replVars == <<replMembers, replHealth, replState, replOplogSize, replOplogHead>>
procVars == <<proc, exitCode, intervalHandle, listening>>
cycleVars == <<started, awaitingStatus, awaitingRepl>>
envVars == <<provider, answered, firstBase>>
histVars == <<observed, lastTopo, lastPrimary>>
nginxVars == <<respBytesCounter, lineCount, lastLine, preBytes>>
vars == <<procVars, cycleVars, regVars, replVars, envVars, histVars, last, pre, logged,
          nginxVars>>

Reg ==
  [mongoUp |-> mongoUp, mongoUptime |-> mongoUptime, mongoMemory |-> mongoMemory,
   mongoConnections |-> mongoConnections, counters |-> counters, snapshots |-> snapshots]
Repl ==
  [replMembers |-> replMembers, replHealth |-> replHealth, replState |-> replState,
   replOplogSize |-> replOplogSize, replOplogHead |-> replOplogHead]
\* the state as one record, for the history variable pre
State ==
  [reg |-> Reg, repl |-> Repl, intervalHandle |-> intervalHandle, listening |-> listening,
   awaitingStatus |-> awaitingStatus, awaitingRepl |-> awaitingRepl, observed |-> observed,
   lastTopo |-> lastTopo, lastPrimary |-> lastPrimary]

SetReg(r) ==
  /\ mongoUp' = r.mongoUp
  /\ mongoUptime' = r.mongoUptime
  /\ mongoMemory' = r.mongoMemory
  /\ mongoConnections' = r.mongoConnections
  /\ counters' = r.counters
  /\ snapshots' = r.snapshots
SetRepl(r) ==
  /\ replMembers' = r.replMembers
  /\ replHealth' = r.replHealth
  /\ replState' = r.replState
  /\ replOplogSize' = r.replOplogSize
  /\ replOplogHead' = r.replOplogHead

\* ------------------------------------------------------- history variables
\* the observation of a key in one response is valid when the normalizer
\* gives a finite number
Valid(raw) == isFinite(toNumber(raw))

\* the families whose updateCounters call ran to its end for this response:
\* those before the first part of the response that raises
Reconciled(status) ==
  IF Get(status, "mem") = Null \/ Get(status, "connections") = Null THEN {}
  ELSE LET raising == {i \in DOMAIN Families : familyArg(status, Families[i]) = Null}
       IN  {Families[i] : i \in {n \in DOMAIN Families : \A m \in raising : n < m}}

\* the raw value a response holds for key k of family f: undefined when the
\* family or the key is missing
RawOf(status, f, k) == Get(familyArg(status, f), k)
KeysOf(status, f) ==
  IF familyArg(status, f).t = "object" THEN DOMAIN familyArg(status, f).f ELSE {}

\* observed[f][k] = [valid: the latest valid observation, reset: whether it was
\* lower than the valid observation before it, gap: whether an unavailable
\* observation came after it, sum: the sum over the consecutive pairs (p, c)
\* of valid observations of c - p when c >= p and of 0 when c < p]
ObserveKey(o, k, v) ==
  IF isFinite(v)
  THEN [valid |-> v.v, reset |-> k \in DOMAIN o /\ v.v < o[k].valid, gap |-> FALSE,
        sum |-> IF k \notin DOMAIN o THEN 0
                ELSE o[k].sum + (IF v.v >= o[k].valid THEN v.v - o[k].valid ELSE 0)]
  ELSE [o[k] EXCEPT !.gap = TRUE]
ObserveFamily(o, arg) ==
  [k \in (DOMAIN o) \cup {j \in (IF arg.t = "object" THEN DOMAIN arg.f ELSE {}) : Valid(Get(arg, j))} |->
     ObserveKey(o, k, toNumber(Get(arg, k)))]
Observe(obs, status) ==
  LET ok == Reconciled(status)
  IN  [f \in FamilySet |->
         IF f \notin ok \/ (obs[f] = EmptyMap /\ familyArg(status, f).t # "object") THEN obs[f]
         ELSE ObserveFamily(obs[f], familyArg(status, f))]

\* the handler op, its input and the state it found
\* whether the try block of collectOnce raises after serverStatus resolved
\* with status: a null part makes a property read or Object.entries raise
onServerStatusThrew(status) ==
  \/ Get(status, "mem") = Null
  \/ Get(status, "connections") = Null
  \/ \E i \in DOMAIN Families : familyArg(status, Families[i]) = Null

\* the callback of app.listen, taken with the call of app.listen that follows
\* the first collectOnce call
listenLogged == IF listening THEN << >> ELSE <<"Mongo exporter listening">>

\* the logger calls of the handler op with input arg, at the default level
\* 'info': the catch of collectOnce, start() after connect, the catch of
\* start(), and the callback of app.listen
loggerCalls(op, arg) ==
  CASE op = "connect" -> <<"Connected to MongoDB">>
    [] op = "connectError" -> <<"Failed to start mongo exporter">>
    [] op = "serverStatusError" -> <<"MongoDB metrics collection failed">> \o listenLogged
    [] op = "serverStatus" /\ onServerStatusThrew(arg) ->
         <<"MongoDB metrics collection failed">> \o listenLogged
    [] op \in {"replSetGetStatus", "replSetGetStatusError"} -> listenLogged
    [] OTHER -> << >>

Record(op, arg) ==
  /\ last' = [op |-> op, arg |-> arg]
  /\ logged' = loggerCalls(op, arg)
  /\ UNCHANGED nginxVars
  /\ pre' = State
  /\ lastTopo' = CASE op = "replSetGetStatusError" -> "error"
                   [] op = "replSetGetStatus" ->
                        IF onReplStatusThrew(arg) THEN "error" ELSE "ok"
                   [] OTHER -> lastTopo
  /\ lastPrimary' = CASE op = "serverStatusError" -> "error"
                      [] op = "serverStatus" -> "ok"
                      [] OTHER -> lastPrimary

\* the state after the module has been loaded: unlabelled gauges start at 0,
\* labelled metrics have no series, the snapshot store is empty
Init ==
  /\ proc = "connecting"
  /\ exitCode = << >>
  /\ intervalHandle = FALSE
  /\ listening = FALSE
  /\ started = 0
  /\ awaitingStatus = 0
  /\ awaitingRepl = 0
  /\ mongoUp = 0
  /\ mongoUptime = 0
  /\ mongoMemory = EmptyMap
  /\ mongoConnections = EmptyMap
  /\ counters = [f \in FamilySet |-> EmptyMap]
  /\ snapshots = [f \in FamilySet |-> EmptyMap]
  /\ replMembers = 0
  /\ replHealth = EmptyMap
  /\ replState = EmptyMap
  /\ replOplogSize = EmptyMap
  /\ replOplogHead = 0
  /\ provider = 0
  /\ answered = << >>
  /\ firstBase = << >>
  /\ observed = [f \in FamilySet |-> EmptyMap]
  /\ lastTopo = "none"
  /\ lastPrimary = "none"
  /\ last = [op |-> "load", arg |-> Undefined]
  /\ pre = State
  /\ logged = << >>
  /\ respBytesCounter = EmptyMap
  /\ lineCount = 0
  /\ lastLine = [shape |-> "none", code |-> << >>, bytes |-> 0]
  /\ preBytes = EmptyMap

\* ------------------------------------------------------------------ actions
\* a variant of ConnectOk in which app.listen is called before the first
\* collectOnce call is awaited
ConnectOkListensFirst ==
  /\ proc = "connecting"
  /\ proc' = "running"
  /\ started' = 1
  /\ awaitingStatus' = 1
  /\ listening' = TRUE
  /\ Record("connect", Undefined)
  /\ UNCHANGED <<exitCode, intervalHandle, awaitingRepl, regVars, replVars, envVars, observed>>

\* start(): connect resolves, adminDb is set and the first collectOnce is
\* called, which issues serverStatus
ConnectOk ==
  /\ proc = "connecting"
  /\ proc' = "running"
  /\ started' = 1
  /\ awaitingStatus' = 1
  /\ Record("connect", Undefined)
  /\ UNCHANGED <<exitCode, intervalHandle, listening, awaitingRepl, regVars, replVars, envVars, observed>>

\* a variant of ConnectFail in which the rejection is swallowed and start()
\* goes on to the first collectOnce call
ConnectFailKeepsRunning ==
  /\ proc = "connecting"
  /\ proc' = "running"
  /\ started' = 1
  /\ awaitingStatus' = 1
  /\ Record("connectError", Undefined)
  /\ UNCHANGED <<exitCode, intervalHandle, listening, awaitingRepl, regVars, replVars, envVars, observed>>

\* start(): connect rejects; the catch of start() exits the process
ConnectFail ==
  /\ proc = "connecting"
  /\ proc' = "exited"
  /\ exitCode' = <<1>>
  /\ Record("connectError", Undefined)
  /\ UNCHANGED <<intervalHandle, listening, cycleVars, regVars, replVars, envVars, observed>>

\* the interval timer fires and calls collectOnce, which issues serverStatus;
\* the timer does not look at the calls still running
\* a variant of timerFires in which collectOnce sends both commands at once
timerFiresBothRequests(maxCalls) ==
  /\ proc = "running"
  /\ intervalHandle
  /\ started < maxCalls
  /\ started' = started + 1
  /\ awaitingStatus' = awaitingStatus + 1
  /\ awaitingRepl' = awaitingRepl + 1
  /\ Record("tick", Undefined)
  /\ UNCHANGED <<procVars, regVars, replVars, envVars, observed>>

timerFires(maxCalls) ==
  /\ proc = "running"
  /\ intervalHandle
  /\ started < maxCalls
  /\ started' = started + 1
  /\ awaitingStatus' = awaitingStatus + 1
  /\ Record("tick", Undefined)
  /\ UNCHANGED <<procVars, awaitingRepl, regVars, replVars, envVars, observed>>

Tick == timerFires(MaxCycles)

\* a collectOnce call returns.  The first call is awaited by start(), which
\* then arms the timer and resolves, so that app.listen is called; no other
\* call is made before the timer is armed
startResumes ==
  /\ intervalHandle' = TRUE
  /\ listening' = TRUE
  /\ proc' = proc
  /\ exitCode' = exitCode

\* serverStatus of a cycle resolves with status
collectOnceStatus(status) ==
  /\ proc = "running"
  /\ awaitingStatus > 0
  /\ awaitingStatus' = awaitingStatus - 1
  /\ \E r \in {onServerStatus(status, Reg)} :
       /\ SetReg(r.reg)
       /\ IF r.threw THEN startResumes /\ awaitingRepl' = awaitingRepl
          ELSE awaitingRepl' = awaitingRepl + 1 /\ UNCHANGED procVars
  /\ observed' = Observe(observed, status)
  /\ Record("serverStatus", status)
  /\ UNCHANGED <<started, replVars>>

ServerStatusOk(status) == collectOnceStatus(status) /\ UNCHANGED envVars

\* a variant of ServerStatusFail in which the rejection leaves collectOnce
\* and reaches the catch of start()
ServerStatusFailExits ==
  /\ proc = "running"
  /\ awaitingStatus > 0
  /\ awaitingStatus' = awaitingStatus - 1
  /\ proc' = "exited"
  /\ exitCode' = <<1>>
  /\ Record("serverStatusError", Undefined)
  /\ UNCHANGED <<intervalHandle, listening, started, awaitingRepl, regVars, replVars, envVars, observed>>

\* serverStatus of a cycle rejects
ServerStatusFail ==
  /\ proc = "running"
  /\ awaitingStatus > 0
  /\ awaitingStatus' = awaitingStatus - 1
  /\ SetReg(onServerStatusError(Reg))
  /\ startResumes
  /\ Record("serverStatusError", Undefined)
  /\ UNCHANGED <<started, awaitingRepl, replVars, envVars, observed>>

\* replSetGetStatus of a cycle settles: collectReplicaMetrics runs to its
\* return and collectOnce resumes after its await, in its catch block when
\* the awaited promise rejected
collectOnceTopology(outcome) ==
  /\ proc = "running"
  /\ awaitingRepl > 0
  /\ awaitingRepl' = awaitingRepl - 1
  /\ \E r \in {collectReplicaMetrics(outcome, Repl)} :
       /\ SetRepl(r.repl)
       /\ IF r.threw THEN SetReg(onServerStatusError(Reg)) ELSE UNCHANGED regVars
  /\ startResumes
  /\ UNCHANGED <<started, awaitingStatus, envVars, observed>>

\* replSetGetStatus of a cycle resolves with status
ReplStatusOk(status) ==
  /\ collectOnceTopology(Resolved(status))
  /\ Record("replSetGetStatus", status)

\* replSetGetStatus of a cycle rejects
ReplStatusFail ==
  /\ collectOnceTopology(Rejected)
  /\ Record("replSetGetStatusError", Undefined)

\* a GET /metrics request is served; requests reach the handlers only once
\* app.listen has been called
MetricsRead ==
  /\ proc = "running"
  /\ listening
  /\ Record("metrics", metricsHandler(Reg, Repl))
  /\ UNCHANGED <<procVars, cycleVars, regVars, replVars, envVars, observed>>

\* a GET /healthz request is served
HealthzRead(promised) ==
  /\ proc = "running"
  /\ listening
  /\ Record("healthz", healthzHandler(promised, mongoUp))
  /\ UNCHANGED <<procVars, cycleVars, regVars, replVars, envVars, observed>>

Next ==
  \/ ConnectOk
  \/ ConnectFail
  \/ Tick
  \/ \E status \in StatusResponses : ServerStatusOk(status)
  \/ ServerStatusFail
  \/ \E status \in ReplResponses : ReplStatusOk(status)
  \/ ReplStatusFail

Spec == Init /\ [][Next]_vars

\* the exporter against a standalone mongod, where replSetGetStatus always
\* rejects, with serverStatus responses that vary the counter values
NextStandalone ==
  \/ ConnectOk
  \/ ConnectFail
  \/ Tick
  \/ \E status \in CounterResponses : ServerStatusOk(status)
  \/ ServerStatusFail
  \/ ReplStatusFail

SpecStandalone == Init /\ [][NextStandalone]_vars

\* the exporter against a replica set whose replSetGetStatus answers vary,
\* with one serverStatus response
NextTopology ==
  \/ ConnectOk
  \/ Tick
  \/ ServerStatusOk(CounterResponse(Num(1), Undefined))
  \/ ServerStatusFail
  \/ \E status \in TopologyResponses : ReplStatusOk(status)
  \/ ReplStatusFail

SpecTopology == Init /\ [][NextTopology]_vars

\* the exporter with its endpoint read at any moment, against a standalone
\* mongod, with either behaviour of the metric's get()
NextExposition ==
  \/ ConnectOk
  \/ ConnectFail
  \/ Tick
  \/ \E status \in GaugeResponses : ServerStatusOk(status)
  \/ ServerStatusFail
  \/ ReplStatusFail
  \/ MetricsRead
  \/ \E promised \in BOOLEAN : HealthzRead(promised)

SpecExposition == Init /\ [][NextExposition]_vars

\* the exporter against a standalone mongod whose counter takes every shape
\* of raw value
NextNormalizer ==
  \/ ConnectOk
  \/ Tick
  \/ \E raw \in RawShapes : ServerStatusOk(CounterResponse(raw, Undefined))
  \/ ReplStatusFail

SpecNormalizer == Init /\ [][NextNormalizer]_vars

\* the exporter against a standalone mongod whose serverStatus responses vary
\* the instantaneous values
NextGauges ==
  \/ ConnectOk
  \/ Tick
  \/ \E status \in GaugeSampleResponses : ServerStatusOk(status)
  \/ ServerStatusFail
  \/ ReplStatusFail

SpecGauges == Init /\ [][NextGauges]_vars

\* the exporter against a replica set whose answers vary the primary
NextPrimary ==
  \/ ConnectOk
  \/ Tick
  \/ ServerStatusOk(CounterResponse(Num(1), Undefined))
  \/ ServerStatusFail
  \/ \E status \in PrimaryResponses : ReplStatusOk(status)
  \/ ReplStatusFail

SpecPrimary == Init /\ [][NextPrimary]_vars

\* the exporter against a replica set whose answers vary the oplog data
NextOplog ==
  \/ ConnectOk
  \/ Tick
  \/ ServerStatusOk(CounterResponse(Num(1), Undefined))
  \/ ServerStatusFail
  \/ \E status \in OplogResponses : ReplStatusOk(status)
  \/ ReplStatusFail

SpecOplog == Init /\ [][NextOplog]_vars

\* the timer fires when no collectOnce call is running: the provider answers
\* within the scrape interval, so that cycles do not overlap
TickSequential ==
  /\ awaitingStatus + awaitingRepl = 0
  /\ Tick

NextSequential ==
  \/ ConnectOk
  \/ TickSequential
  \/ \E status \in CounterResponses : ServerStatusOk(status)
  \/ ServerStatusFail
  \/ ReplStatusFail

SpecSequential == Init /\ [][NextSequential]_vars

\* the exporter with the progress its own scheduling guarantees: the connect
\* attempt settles (serverSelectionTimeoutMS) and an armed timer fires.  The
\* two commands are sent without a time limit, so nothing makes a pending
\* serverStatus or replSetGetStatus request settle
NextFair ==
  \/ ConnectOk
  \/ ConnectFail
  \/ Tick
  \/ \E status \in CounterResponses : ServerStatusOk(status)
  \/ ServerStatusFail
  \/ ReplStatusFail

SpecFair ==
  /\ Init /\ [][NextFair]_vars
  /\ WF_vars(ConnectOk \/ ConnectFail)
  /\ WF_vars(Tick)

\* a slow provider whose counter only grows: it answers a pending serverStatus
\* request with its current value at some moment after the request, and the
\* answers of different requests are received in any order
ProviderGrows ==
  /\ provider < MaxProvider
  /\ provider' = provider + 1
  /\ UNCHANGED <<procVars, cycleVars, regVars, replVars, answered, firstBase, histVars, last, pre, logged, nginxVars>>

ProviderAnswers ==
  /\ Len(answered) < awaitingStatus
  /\ answered' = Append(answered, provider)
  /\ UNCHANGED <<procVars, cycleVars, regVars, replVars, provider, firstBase, histVars, last, pre, logged, nginxVars>>

ServerStatusAnswered(i) ==
  /\ i \in DOMAIN answered
  /\ collectOnceStatus(CounterResponse(Num(answered[i]), Undefined))
  /\ answered' = [j \in 1..(Len(answered) - 1) |-> IF j < i THEN answered[j] ELSE answered[j + 1]]
  /\ firstBase' = IF firstBase = << >> THEN <<answered[i]>> ELSE firstBase
  /\ provider' = provider

TickGrow == timerFires(GrowCycles)

NextGrow ==
  \/ ConnectOk
  \/ TickGrow
  \/ ProviderGrows
  \/ ProviderAnswers
  \/ \E i \in 1..GrowCycles : ServerStatusAnswered(i)
  \/ ReplStatusFail

SpecGrow == Init /\ [][NextGrow]_vars

\* ------------------------------------------------------------------ claims
\* the exported total of key k of family f in the registry record r; a key
\* without a series exports nothing
Total(r, f, k) == IF k \in DOMAIN r.counters[f] THEN r.counters[f][k] ELSE 0
\* the entry of k in the map m, as a sequence of length 0 or 1
Entry(m, k) == IF k \in DOMAIN m THEN <<m[k]>> ELSE << >>
\* the last handler was the reception of a serverStatus response
StatusStep == last.op = "serverStatus"
\* the normalized value the last response holds for key k of family f
Seen(f, k) == toNumber(RawOf(last.arg, f, k))
\* the last response made updateCounters visit key k of family f with a valid value
ValidSeen(f, k) ==
  /\ StatusStep
  /\ f \in Reconciled(last.arg)
  /\ k \in KeysOf(last.arg, f)
  /\ Valid(RawOf(last.arg, f, k))
AllKeys(f) == (DOMAIN snapshots[f]) \cup (DOMAIN pre.reg.snapshots[f]) \cup KeysOf(last.arg, f)

\* C1: over every handler, the exported total of every key of every family is
\* non-decreasing, and a series never starts below 0
CounterTotalsNonDecreasing ==
  \A f \in FamilySet :
    /\ \A k \in DOMAIN pre.reg.counters[f] :
         k \in DOMAIN counters[f] /\ counters[f][k] >= pre.reg.counters[f][k]
    /\ \A k \in DOMAIN counters[f] : counters[f][k] >= 0

\* a reset was received for a key that had already counted
CounterResetAfterCounting ==
  \E f \in FamilySet : \E k \in DOMAIN pre.reg.snapshots[f] :
    /\ ValidSeen(f, k)
    /\ Seen(f, k).v < pre.reg.snapshots[f][k]
    /\ Total(pre.reg, f, k) > 0
    /\ Total(Reg, f, k) = Total(pre.reg, f, k)

\* C2: a valid value lower than the stored one adds nothing and becomes the
\* stored value, and the valid value received after a reset is differenced
\* against the value the reset delivered
ResetAbsorbed ==
  \A f \in FamilySet : \A k \in AllKeys(f) :
    ValidSeen(f, k) =>
      /\ (k \in DOMAIN pre.reg.snapshots[f] /\ Seen(f, k).v < pre.reg.snapshots[f][k]) =>
           /\ Entry(counters[f], k) = Entry(pre.reg.counters[f], k)
           /\ snapshots[f][k] = Seen(f, k).v
      /\ (k \in DOMAIN pre.observed[f] /\ pre.observed[f][k].reset
            /\ Seen(f, k).v >= pre.observed[f][k].valid) =>
           Total(Reg, f, k) - Total(pre.reg, f, k) = Seen(f, k).v - pre.observed[f][k].valid

\* the value after a reset was received, higher than the reset value
IncrementAfterReset ==
  \E f \in FamilySet : \E k \in DOMAIN pre.observed[f] :
    /\ ValidSeen(f, k)
    /\ pre.observed[f][k].reset
    /\ Seen(f, k).v > pre.observed[f][k].valid
    /\ Total(Reg, f, k) = Total(pre.reg, f, k) + Seen(f, k).v - pre.observed[f][k].valid

\* C3: the first valid value of a key adds nothing to its exported total and
\* becomes the stored value
FirstObservationIsBaseline ==
  \A f \in FamilySet : \A k \in AllKeys(f) :
    (ValidSeen(f, k) /\ k \notin DOMAIN pre.reg.snapshots[f]) =>
      /\ Entry(counters[f], k) = Entry(pre.reg.counters[f], k)
      /\ Total(Reg, f, k) = 0
      /\ snapshots[f][k] = Seen(f, k).v

\* a first value above 0 was received
FirstObservationSeen ==
  \E f \in FamilySet : \E k \in KeysOf(last.arg, f) :
    /\ ValidSeen(f, k)
    /\ k \notin DOMAIN pre.reg.snapshots[f]
    /\ Seen(f, k).v > 0
    /\ snapshots[f][k] = Seen(f, k).v

\* C4: a valid value not below the stored one adds exactly their difference,
\* 0 for a tie, becomes the stored value and raises no error
NormalIncrement ==
  \A f \in FamilySet : \A k \in AllKeys(f) :
    (ValidSeen(f, k) /\ k \in DOMAIN pre.reg.snapshots[f]
       /\ Seen(f, k).v >= pre.reg.snapshots[f][k]) =>
      /\ k \in DOMAIN counters[f]
      /\ counters[f][k] = Total(pre.reg, f, k) + Seen(f, k).v - pre.reg.snapshots[f][k]
      /\ snapshots[f][k] = Seen(f, k).v
      /\ mongoUp = 1

\* one response raised one key and left another at its value
IncrementAndTieSeen ==
  \E f \in FamilySet, g \in FamilySet :
    \E k \in DOMAIN pre.reg.snapshots[f], j \in DOMAIN pre.reg.snapshots[g] :
      /\ ValidSeen(f, k) /\ ValidSeen(g, j)
      /\ Seen(f, k).v > pre.reg.snapshots[f][k]
      /\ Total(pre.reg, f, k) > 0
      /\ Seen(g, j).v = pre.reg.snapshots[g][j]
      /\ counters[g][j] = Total(pre.reg, g, j)

AtMostOneCycleInFlight == awaitingStatus + awaitingRepl <= 1

\* C7: with a provider whose counter only grows, the exported total of the key
\* never exceeds the provider's latest value minus the first value received
NoDuplicatedIncrements ==
  firstBase # << >> =>
    Total(Reg, "opcounters", "insert") <= provider - firstBase[1]

\* C8: when the topology query of a cycle fails, the cycle ends with the
\* availability flag up
TopologyFailureEndsUp ==
  last.op = "replSetGetStatusError" => mongoUp = 1

\* C9: the reception of a serverStatus response leaves the flag up, whatever
\* the response holds, and the topology outcome does not write the flag
FlagDownOnlyOnRequestFailure ==
  /\ StatusStep => mongoUp = 1
  /\ last.op \in {"replSetGetStatus", "replSetGetStatusError"} => mongoUp = pre.reg.mongoUp

\* C10: a failed serverStatus request sets the flag down, leaves the store,
\* the counters, the gauges and the topology gauges as they were, and issues
\* no topology query
FailedRequestLeavesStateAlone ==
  last.op = "serverStatusError" =>
    /\ mongoUp = 0
    /\ [Reg EXCEPT !.mongoUp = pre.reg.mongoUp] = pre.reg
    /\ Repl = pre.repl
    /\ awaitingRepl = pre.awaitingRepl

\* a request failed while the flag was up and baselines, totals, gauges and
\* topology series were held
FailedRequestWithState ==
  /\ last.op = "serverStatusError"
  /\ pre.reg.mongoUp = 1
  /\ mongoUp = 0
  /\ snapshots["opcounters"] # EmptyMap
  /\ counters["opcounters"] # EmptyMap
  /\ mongoMemory # EmptyMap
  /\ replHealth # EmptyMap

\* C11: a failed cycle leaves the process running with the timer armed, and
\* the next serverStatus response received while the flag is down sets the
\* flag up and differences every valid key against the value stored before
\* the failures
RecoveryAfterFailedCycles ==
  /\ last.op = "serverStatusError" => (proc = "running" /\ intervalHandle)
  /\ (StatusStep /\ pre.intervalHandle /\ pre.reg.mongoUp = 0) =>
       /\ mongoUp = 1
       /\ \A f \in FamilySet : \A k \in KeysOf(last.arg, f) :
            (Valid(RawOf(last.arg, f, k)) /\ k \in DOMAIN pre.reg.snapshots[f]) =>
              Total(Reg, f, k) - Total(pre.reg, f, k) =
                IF Seen(f, k).v >= pre.reg.snapshots[f][k]
                THEN Seen(f, k).v - pre.reg.snapshots[f][k] ELSE 0

MemberNames(status) ==
  LET m == Get(status, "members")
  IN  IF m.t = "array" THEN {Get(m.items[i], "name").s : i \in DOMAIN m.items} ELSE {}

\* C13: the exported member series are those of one view: after a failed
\* topology query the single member 'standalone', after a clustered response
\* the members of that response and no 'standalone' member
SingleTopologyView ==
  /\ lastTopo = "error" =>
       /\ DOMAIN replHealth = {"standalone"}
       /\ DOMAIN replState = {<<"standalone", "standalone">>}
  /\ lastTopo = "ok" =>
       /\ "standalone" \notin DOMAIN replHealth
       /\ <<"standalone", "standalone">> \notin DOMAIN replState
  /\ (last.op = "replSetGetStatus" /\ lastTopo = "ok") =>
       DOMAIN replHealth = MemberNames(last.arg)

\* C14: whatever the outcome of the topology query, collectReplicaMetrics
\* returns normally: the cycle ends without entering the failure branch of
\* collectOnce (the flag and the rest of the registry are as before), and a
\* rejected or malformed outcome has been turned into the standalone view
TopologyNeverFails ==
  last.op \in {"replSetGetStatus", "replSetGetStatusError"} =>
    /\ Reg = pre.reg
    /\ awaitingRepl = pre.awaitingRepl - 1
    /\ lastTopo = "error" =>
         /\ replMembers = 1
         /\ "standalone" \in DOMAIN replHealth /\ replHealth["standalone"] = 1

\* a response with a malformed member list was received while the flag was up
MalformedTopologyHandled ==
  /\ last.op = "replSetGetStatus"
  /\ onReplStatusThrew(last.arg)
  /\ pre.reg.mongoUp = 1
  /\ mongoUp = 1
  /\ replMembers = 1

\* C15: no collectOnce call is made, no timer is armed and the endpoint does
\* not listen unless the connection has succeeded; a rejected connection ends
\* the process with exit code 1, with no cycle run, no timer and no listener
PollingOnlyAfterConnect ==
  /\ proc = "connecting" =>
       started = 0 /\ awaitingStatus + awaitingRepl = 0 /\ ~intervalHandle /\ ~listening
  /\ last.op = "connectError" => proc = "exited"
  /\ proc = "exited" =>
       /\ exitCode = <<1>>
       /\ started = 0 /\ awaitingStatus + awaitingRepl = 0 /\ ~intervalHandle /\ ~listening
  /\ proc = "running" => exitCode = << >>

\* the connection was rejected and the process has exited
ConnectionFailureExits ==
  /\ last.op = "connectError"
  /\ pre.reg.mongoUp = 0
  /\ proc = "exited"
  /\ exitCode = <<1>>

HealthIffFlagUp ==
  last.op = "healthz" =>
    /\ last.arg.status = "ok" <=> mongoUp >= 1
    /\ lastPrimary = "error" => last.arg.status = "degraded"

\* C18: whenever a cycle is waiting for the provider, the endpoint is
\* listening, so that a read can be served while it waits
ReadsServedWhileWaiting ==
  (proc = "running" /\ awaitingStatus + awaitingRepl > 0) => listening

\* the raw values that are no numeric representation
Unrecognized ==
  {Undefined, Null, Str(""), Str("abc"), Bool(FALSE), Bool(TRUE), Arr(<< >>), Obj(EmptyMap)}
\* the raw values that encode the number zero
EncodesZero ==
  {Num(0), BigInt(0), Long(0), Decimal128("0"), Double(Num(0)), Int32(Num(0)), Str("0")}

\* C19: for the raw value of a received response, the normalizer gives
\* 'unavailable' when the value is no numeric representation, and gives 0
\* only when the value encodes zero
NormalizerNeverSubstitutes ==
  StatusStep =>
    LET raw == RawOf(last.arg, "opcounters", "insert")
    IN  /\ raw \in Unrecognized => toNumber(raw) = Undefined
        /\ toNumber(raw) = Num(0) => raw \in EncodesZero

\* C20 as stated: over every handler, the stored value of every key is not
\* below the value stored before
StoredValueNonDecreasing ==
  \A f \in FamilySet : \A k \in DOMAIN pre.reg.snapshots[f] :
    k \in DOMAIN snapshots[f] /\ snapshots[f][k] >= pre.reg.snapshots[f][k]

\* C20 as amended: the stored value of a key goes below the value stored
\* before only when a valid lower value was received for the key, and it is
\* then that value
StoredValueLoweredOnlyByReset ==
  \A f \in FamilySet : \A k \in DOMAIN pre.reg.snapshots[f] :
    /\ k \in DOMAIN snapshots[f]
    /\ \/ snapshots[f][k] >= pre.reg.snapshots[f][k]
       \/ /\ ValidSeen(f, k)
          /\ Seen(f, k).v < pre.reg.snapshots[f][k]
          /\ snapshots[f][k] = Seen(f, k).v

\* a valid lower value was received and the stored value went down to it
StoreLoweredByReset ==
  \E f \in FamilySet : \E k \in DOMAIN pre.reg.snapshots[f] :
    /\ ValidSeen(f, k)
    /\ snapshots[f][k] < pre.reg.snapshots[f][k]
    /\ snapshots[f][k] = Seen(f, k).v

\* the number of collectOnce calls that have returned
Completed == started - awaitingStatus - awaitingRepl

\* C21: a collectOnce call that was started eventually returns.  Stated for
\* the first call, which start() awaits before it arms the timer: while it is
\* pending no other call is started and the endpoint does not listen
EveryCycleCompletes == (started >= 1) ~> (Completed >= 1)

\* C22: the exported total of every key equals the reference sum over its
\* valid observations, and a key without a series has the reference sum 0
TotalIsReferenceSum ==
  \A f \in FamilySet :
    /\ \A k \in DOMAIN observed[f] : Total(Reg, f, k) = observed[f][k].sum
    /\ DOMAIN counters[f] \subseteq DOMAIN observed[f]

\* a key has been incremented in two cycles, the last time by less than its total
TwoIncrementsAccumulated ==
  \E f \in FamilySet : \E k \in DOMAIN pre.reg.counters[f] :
    /\ ValidSeen(f, k)
    /\ Total(pre.reg, f, k) > 0
    /\ Total(Reg, f, k) > Total(pre.reg, f, k)
    /\ Total(Reg, f, k) = observed[f][k].sum

\* C23: a step that issues a topology query is the step in which a primary
\* stats request of a cycle completes with success, and it leaves the registry
\* with every update derived from the response applied
TopologyAfterPrimaryUpdates ==
  [][awaitingRepl' > awaitingRepl =>
       /\ awaitingStatus' = awaitingStatus - 1
       /\ last'.op = "serverStatus"
       /\ ~onServerStatus(last'.arg, Reg).threw
       /\ Reg' = onServerStatus(last'.arg, Reg).reg]_vars

\* a topology query has been issued by a cycle whose response changed a gauge
\* and a counter baseline
TopologyIssuedAfterUpdates ==
  /\ last.op = "serverStatus"
  /\ awaitingRepl = pre.awaitingRepl + 1
  /\ mongoUp = 1
  /\ mongoUptime # pre.reg.mongoUptime
  /\ snapshots # pre.reg.snapshots

\* C24: the snapshot store of every family has an entry exactly for the keys
\* of which a valid observation was processed, and the entry is a number equal
\* to the latest valid observation processed
StoreHoldsLatestValid ==
  \A f \in FamilySet :
    /\ DOMAIN snapshots[f] = DOMAIN observed[f]
    /\ \A k \in DOMAIN snapshots[f] :
         /\ snapshots[f][k] \in Int
         /\ snapshots[f][k] = observed[f][k].valid

\* the store holds a value that was lower than the one before it, and an
\* unavailable observation of the key has been processed since
StoreKeptAcrossResetAndGap ==
  \E f \in FamilySet : \E k \in DOMAIN snapshots[f] :
    /\ observed[f][k].reset
    /\ observed[f][k].gap
    /\ snapshots[f][k] = observed[f][k].valid

\* C25: over every handler, every key with a store entry keeps an entry, and
\* a key gets its entry only from a response that holds a valid observation
\* of it
StoreKeysOnlyGrow ==
  \A f \in FamilySet :
    /\ DOMAIN pre.reg.snapshots[f] \subseteq DOMAIN snapshots[f]
    /\ \A k \in DOMAIN snapshots[f] \ DOMAIN pre.reg.snapshots[f] : ValidSeen(f, k)

\* a response without a key that has a store entry has been processed, after
\* a reset of another key, and the entry is still there
EntryKeptWhenKeyAbsent ==
  /\ StatusStep
  /\ \E f \in FamilySet : \E k \in DOMAIN pre.reg.snapshots[f] :
       k \notin KeysOf(last.arg, f) /\ k \in DOMAIN snapshots[f]
  /\ \E f \in FamilySet : \E k \in DOMAIN snapshots[f] : observed[f][k].reset

\* the instantaneous metrics, the raw sample a response holds for each, the
\* series each is exported as, and the exported value of a normalized sample
\* (serverStatus reports memory in MiB; the gauge is in bytes)
GaugeNames == {"uptime", "resident", "virtual", "current", "available"}
GaugeSample(status, g) ==
  CASE g = "uptime" -> Get(status, "uptime")
    [] g \in {"resident", "virtual"} -> OptGet(Get(status, "mem"), g)
    [] OTHER -> OptGet(Get(status, "connections"), g)
GaugeValue(r, g) ==
  CASE g = "uptime" -> <<r.mongoUptime>>
    [] g \in {"resident", "virtual"} -> Entry(r.mongoMemory, g)
    [] OTHER -> Entry(r.mongoConnections, g)
GaugeExported(g, n) == IF g \in {"resident", "virtual"} THEN n * 1024 * 1024 ELSE n

RECURSIVE reconcileFamiliesIn(_, _, _, _)
reconcileFamiliesIn(order, i, status, reg) ==
  IF i > Len(order) THEN reg
  ELSE LET fam == order[i]
           r == updateCounters(familyArg(status, fam), reg.snapshots[fam], reg.counters[fam])
       IN  IF r.threw THEN reg
           ELSE reconcileFamiliesIn(order, i + 1, status,
                  [reg EXCEPT !.snapshots[fam] = r.store, !.counters[fam] = r.counter])
\* the order of the source and its reverse
FamilyOrders == {Families, [i \in DOMAIN Families |-> Families[Len(Families) + 1 - i]]}

\* C27: the reception of a response whose families are reached leaves, for
\* every key of every family, the baseline and total that reconciling that
\* key alone against the family's own store gives, and leaves the store and
\* the totals that the updateCounters calls give in any order
KeysAndFamiliesIndependent ==
  (StatusStep /\ Get(last.arg, "mem") # Null /\ Get(last.arg, "connections") # Null) =>
    /\ \A f \in Reconciled(last.arg) : \A k \in AllKeys(f) :
         LET acc == [store |-> pre.reg.snapshots[f], counter |-> pre.reg.counters[f]]
             alone == IF k \in KeysOf(last.arg, f)
                      THEN reconcileEntry(acc, k, RawOf(last.arg, f, k)) ELSE acc
         IN  /\ Entry(snapshots[f], k) = Entry(alone.store, k)
             /\ Entry(counters[f], k) = Entry(alone.counter, k)
    /\ \A order \in FamilyOrders :
         LET r == reconcileFamiliesIn(order, 1, last.arg, pre.reg)
         IN  r.snapshots = snapshots /\ r.counters = counters

\* the members of a response, and the member the claim names as the primary:
\* the first one labelled PRIMARY, else the first one, as a sequence of
\* length 0 or 1
MembersOf(status) ==
  IF Nullish(Get(status, "members")) THEN << >> ELSE Get(status, "members").items
FirstOf(members) == IF Len(members) > 0 THEN <<members[1]>> ELSE << >>
PrimaryOf(members) ==
  IF \E i \in DOMAIN members : Get(members[i], "stateStr") = Str("PRIMARY")
  THEN <<members[CHOOSE i \in DOMAIN members :
                   /\ Get(members[i], "stateStr") = Str("PRIMARY")
                   /\ \A j \in 1..(i - 1) : Get(members[j], "stateStr") # Str("PRIMARY")]>>
  ELSE FirstOf(members)
\* the last handler processed a replSetGetStatus response without raising
TopologyStep == last.op = "replSetGetStatus" /\ lastTopo = "ok"

\* C28: after a response has been processed, the oplog head gauge holds the
\* optime date, in seconds, of the first member labelled PRIMARY, else of the
\* first member, when that member exists and carries a date, and holds what
\* it held before otherwise
OplogHeadFromPrimary ==
  TopologyStep =>
    LET primary == PrimaryOf(MembersOf(last.arg))
    IN  IF primary # << >> /\ Get(primary[1], "optimeDate").t = "Date"
        THEN replOplogHead * 1000 = Get(primary[1], "optimeDate").ms
        ELSE replOplogHead = pre.repl.replOplogHead

\* the oplog head has been written from a primary that is not the first
\* member, over a value written by a response before
OplogHeadFromSecondMember ==
  /\ TopologyStep
  /\ PrimaryOf(MembersOf(last.arg)) # FirstOf(MembersOf(last.arg))
  /\ pre.repl.replOplogHead > 0
  /\ replOplogHead # pre.repl.replOplogHead

\* a key of the last response has a valid value below its stored value
ResetIn(f, k) ==
  /\ ValidSeen(f, k)
  /\ k \in DOMAIN pre.reg.snapshots[f]
  /\ Seen(f, k).v < pre.reg.snapshots[f][k]

\* C29: the handler that absorbs a reset gives a message to the logger, and
\* the cycle goes on with the flag up
ResetIsLogged ==
  (\E f \in FamilySet : \E k \in KeysOf(last.arg, f) : ResetIn(f, k)) =>
    /\ logged # << >>
    /\ mongoUp = 1
    /\ awaitingRepl = pre.awaitingRepl + 1

\* the state series the members of a response are exported as
MemberStates(status) ==
  {<<Get(MembersOf(status)[i], "stateStr").s, Get(MembersOf(status)[i], "name").s>> :
     i \in DOMAIN MembersOf(status)}

\* C30: after a response has been processed, the member health and state
\* series are those of the members of that response, as many as the
\* member-count gauge says
MemberSeriesOfLatestResponse ==
  TopologyStep =>
    /\ DOMAIN replHealth = MemberNames(last.arg)
    /\ DOMAIN replState = MemberStates(last.arg)
    /\ Cardinality(DOMAIN replHealth) = replMembers
    /\ Cardinality(DOMAIN replState) = replMembers

\* the last handler ended a topology query in the fallback
TopologyFailed ==
  last.op \in {"replSetGetStatus", "replSetGetStatusError"} /\ lastTopo = "error"
\* the last response names no primary that carries an optime date
NoPrimaryOptime ==
  LET primary == PrimaryOf(MembersOf(last.arg))
  IN  primary = << >> \/ Get(primary[1], "optimeDate").t # "Date"
\* the last response carries no oplog size
NoOplogSize ==
  ~Truthy(OptGet(OptGet(last.arg, "storageEngine"), "oplogSizeMB"))

\* C31 as stated: a failing topology query leaves the oplog head and the
\* allocated oplog size at 0, and a processed response without a primary
\* optime leaves both as they were
FailureZeroesSuccessWritesNeither ==
  /\ TopologyFailed =>
       replOplogHead = 0 /\ Entry(replOplogSize, "allocated") = <<0>>
  /\ (TopologyStep /\ NoPrimaryOptime) =>
       /\ replOplogHead = pre.repl.replOplogHead
       /\ replOplogSize = pre.repl.replOplogSize

\* C31 as amended: a failing topology query leaves the oplog head and the
\* allocated oplog size at 0; a processed response without a primary optime
\* leaves the oplog head as it was, and a processed response without an
\* oplog size leaves the allocated oplog size as it was
FailureZeroesSuccessKeepsMissing ==
  /\ TopologyFailed =>
       replOplogHead = 0 /\ Entry(replOplogSize, "allocated") = <<0>>
  /\ (TopologyStep /\ NoPrimaryOptime) => replOplogHead = pre.repl.replOplogHead
  /\ (TopologyStep /\ NoOplogSize) => replOplogSize = pre.repl.replOplogSize

\* a failing topology query has overwritten the oplog head and size that
\* clustered cycles before it had written
FailureOverwroteKeptOplog ==
  /\ TopologyFailed
  /\ pre.lastTopo = "ok"
  /\ pre.repl.replOplogHead > 0
  /\ Entry(pre.repl.replOplogSize, "allocated") # << >>
  /\ pre.repl.replOplogSize["allocated"] > 0
  /\ replOplogHead = 0
  /\ replOplogSize["allocated"] = 0

\* C32: the endpoint listens only once the connection has succeeded, the
\* first collectOnce call has returned and the timer is armed, and every
\* read is served after a cycle has written the availability flag
ListensAfterFirstCycle ==
  /\ listening =>
       /\ proc = "running"
       /\ intervalHandle
       /\ Completed >= 1
       /\ lastPrimary # "none"
  /\ last.op \in {"metrics", "healthz"} =>
       /\ pre.listening
       /\ pre.lastPrimary # "none"

\* the endpoint has been read when one cycle had been started, and that
\* cycle had failed
ReadAfterFailedFirstCycle ==
  /\ last.op \in {"metrics", "healthz"}
  /\ started = 1
  /\ Completed = 1
  /\ lastPrimary = "error"
  /\ mongoUp = 0

\* ------------------------------------------------------- nginx log exporter
\* A line is a sequence of characters, each a string of length 1, over an
\* alphabet with a member of each class the pattern tells apart
Digit == {"0", "1", "2", "4", "5"}
Space == {" "}
Alphabet == Digit \cup Space \cup {"a", "-", "[", "]", "\""}

\* lineRegex as the sequence of its elements: a character class with the
\* least and the greatest number of repetitions (0: no limit).  The groups
\* are the elements 1, 18 and 20
Elem(class, least, most) == [class |-> class, least |-> least, most |-> most]
lineRegex ==
  <<Elem(Alphabet \ Space, 1, 0), Elem(Space, 1, 0),
    Elem(Alphabet \ Space, 1, 0), Elem(Space, 1, 0),
    Elem(Alphabet \ Space, 1, 0), Elem(Space, 1, 0),
    Elem({"["}, 1, 1), Elem(Alphabet \ {"]"}, 1, 0), Elem({"]"}, 1, 1),
    Elem(Space, 1, 0),
    Elem({"\""}, 1, 1), Elem(Alphabet \ {"\"", " "}, 1, 0), Elem(Space, 1, 0),
    Elem(Alphabet \ {"\"", " "}, 1, 0), Elem(Alphabet \ {"\""}, 0, 0), Elem({"\""}, 1, 1),
    Elem(Space, 1, 0), Elem(Digit, 3, 3), Elem(Space, 1, 0), Elem(Digit, 1, 0)>>

\* the position after the longest run of characters of class from pos on, at
\* most `most` of them
RunEnd(line, pos, class, most) ==
  LET limit == IF most = 0 THEN Len(line) + 1
               ELSE IF pos + most < Len(line) + 1 THEN pos + most ELSE Len(line) + 1
  IN  CHOOSE p \in pos..limit :
        /\ \A q \in pos..(p - 1) : line[q] \in class
        /\ p = limit \/ line[p] \notin class

\* lineRegex.exec(line) from the start of the line: each element takes the
\* longest run it can, which is the only way the pattern can match, since
\* every run ends at a character the next element requires.  The result is
\* << >> for null, else <<match>> with the groups as character sequences
RECURSIVE execFrom(_, _, _, _)
execFrom(i, line, pos, groups) ==
  IF i > Len(lineRegex) THEN <<groups>>
  ELSE LET e == lineRegex[i]
           end == RunEnd(line, pos, e.class, e.most)
       IN  IF end - pos < e.least THEN << >>
           ELSE execFrom(i + 1, line, end,
                         IF i \in {1, 18, 20}
                         THEN Append(groups, SubSeq(line, pos, end - 1)) ELSE groups)
exec(line) == execFrom(1, line, 1, << >>)

\* Number(digits) for a string of decimal digits
DigitValue(c) ==
  CASE c = "0" -> 0 [] c = "1" -> 1 [] c = "2" -> 2 [] c = "4" -> 4 [] c = "5" -> 5
RECURSIVE DigitsToNumber(_)
DigitsToNumber(digits) ==
  IF digits = << >> THEN 0
  ELSE 10 * DigitsToNumber(SubSeq(digits, 1, Len(digits) - 1)) + DigitValue(digits[Len(digits)])

\* a variant of onLine that sets the series to the byte count of the line
onLineSetsSeries(line, counter) ==
  LET match == exec(line)
  IN  IF match = << >> THEN counter
      ELSE Put(counter, match[1][2], DigitsToNumber(match[1][3]))

\* the callback of tail.on('line'): the series of the response code, which
\* is the label value, is incremented by the byte count.  A string of up to
\* 308 digits converts to a finite number
onLine(line, counter) ==
  LET match == exec(line)
  IN  IF match = << >> THEN counter
      ELSE IF Len(match[1][3]) > 308 THEN counter
      ELSE inc(counter, match[1][2], DigitsToNumber(match[1][3]))

\* The lines the log holds, by what they are made of: a shape, a response
\* code and a byte count.  'access' is a line of the access log, 'combined'
\* one followed by referrer and user agent; the others are an access line
\* without the brackets around the time, one whose request is "-", one whose
\* byte count is "-", one with a response code of four digits, a line of
\* another log, and an empty line
Shapes == {"access", "combined", "nobrackets", "norequest", "nobytes", "longcode",
           "other", "empty"}
Codes == {<<"2", "0", "0">>, <<"4", "0", "4">>}
ByteCounts == {0, 5, 12}
DigitsOf(n) ==
  CASE n = 0 -> <<"0">> [] n = 5 -> <<"5">> [] n = 12 -> <<"1", "2">>
Written(shape, code, bytes) ==
  LET host == <<"a", " ", "-", " ", "a", " ">>
      time == <<"[", "a", " ", "a", "]", " ">>
      request == <<"\"", "a", " ", "a", " ", "a", "\"", " ">>
  IN  CASE shape = "access" -> host \o time \o request \o code \o <<" ">> \o DigitsOf(bytes)
        [] shape = "combined" ->
             host \o time \o request \o code \o <<" ">> \o DigitsOf(bytes)
               \o <<" ", "\"", "-", "\"", " ", "\"", "a", " ", "1", "\"">>
        [] shape = "nobrackets" ->
             host \o <<"a", " ", "a", " ">> \o request \o code \o <<" ">> \o DigitsOf(bytes)
        [] shape = "norequest" ->
             host \o time \o <<"\"", "-", "\"", " ">> \o code \o <<" ">> \o DigitsOf(bytes)
        [] shape = "nobytes" -> host \o time \o request \o code \o <<" ", "-">>
        [] shape = "longcode" ->
             host \o time \o request \o code \o <<"0", " ">> \o DigitsOf(bytes)
        [] shape = "other" -> <<"2", "0", "0", " ">> \o DigitsOf(bytes) \o <<" ", "a">>
        [] shape = "empty" -> << >>
Lines == [shape : Shapes, code : Codes, bytes : ByteCounts]

\* the tailer emits a line and the callback handles it
tailLine(l) ==
  /\ lineCount < MaxLines
  /\ lineCount' = lineCount + 1
  /\ respBytesCounter' = onLine(Written(l.shape, l.code, l.bytes), respBytesCounter)
  /\ lastLine' = l
  /\ preBytes' = respBytesCounter
  /\ UNCHANGED <<procVars, cycleVars, regVars, replVars, envVars, histVars, last, pre, logged>>

NextNginx == \E l \in Lines : tailLine(l)

SpecNginx == Init /\ [][NextNginx]_vars

\* C33: the handling of a line changes no series when the line is not of
\* the shape of an access-log line; otherwise it adds the byte count of the
\* line to the series of its response code and changes no other series; and
\* no series ever goes down
LineCountedOnce ==
  /\ \A c \in DOMAIN preBytes : c \in DOMAIN respBytesCounter /\ respBytesCounter[c] >= preBytes[c]
  /\ lastLine.shape \notin {"access", "combined"} => respBytesCounter = preBytes
  /\ lastLine.shape \in {"access", "combined"} =>
       /\ DOMAIN respBytesCounter = DOMAIN preBytes \cup {lastLine.code}
       /\ respBytesCounter[lastLine.code] =
            (IF lastLine.code \in DOMAIN preBytes THEN preBytes[lastLine.code] ELSE 0)
              + lastLine.bytes
       /\ \A c \in DOMAIN preBytes \ {lastLine.code} : respBytesCounter[c] = preBytes[c]

\* a line has added its bytes to a series that lines before it had raised,
\* beside a series of another response code
LineAddedToSeries ==
  /\ lastLine.shape = "combined"
  /\ lastLine.bytes > 0
  /\ lastLine.code \in DOMAIN preBytes
  /\ preBytes[lastLine.code] > 0
  /\ \E c \in DOMAIN preBytes : c # lastLine.code
  /\ respBytesCounter[lastLine.code] = preBytes[lastLine.code] + lastLine.bytes

====
